---- MODULE Spec2Model ----
(***************************************************************************)
(* A model of the two example scripts of the repository:                   *)
(*   06_gpu_and_ml/dreambooth/dreambooth_app_no_lora.py  (sweep, train,    *)
(*       Model, run)                                                       *)
(*   06_gpu_and_ml/protein-folding/boltz1.py  (main, boltz1_inference,     *)
(*       download_model)                                                   *)
(* Strings are TLA+ strings joined with \o, except where the code looks at *)
(* single characters (shlex.split): there a string is a sequence of        *)
(* one-character strings.                                                  *)
(***************************************************************************)
EXTENDS Integers, Sequences, FiniteSets, TLC

VARIABLES
    sweep_config,   \* the SweepConfig handed to generate_sweep_configs
    configs,        \* what generate_sweep_configs returned (<<>> before the call)
    gen_pc,         \* "idle" | "ready" | "done": where the call of generate_sweep_configs is
    run_arg,        \* run's parameter max_train_steps
    run,            \* the local entry point run(): its position and loop state
    train,          \* train invocations, one per input of train.map
    child,          \* the training child process of each train invocation
    volume,         \* the committed state of the modal.Volume mounted at MODEL_DIR
    model,          \* Model execution contexts (containers), per evaluated directory
    fold,           \* the folding entry point main() and its remote calls
    lines_left,     \* lines the training children may still write, all together
    pack,           \* a call of package_outputs: its directory tree and its archive
    inf             \* a call of boltz1_inference in its container

vars == <<sweep_config, configs, gen_pc, run_arg, run, train, child, volume, model, fold,
          lines_left, pack, inf>>

(***************************************************************************)
(* Bounds of the model.                                                    *)
(***************************************************************************)
MaxLen == 2          \* longest train_steps / ranks list given to the generator
MaxLines == 2        \* most lines the child of a single train invocation writes
SweepLines == 1      \* most lines the children of one sweep write, all together
MaxCtx == 1          \* Model containers the platform starts per directory
MaxDepth == 2        \* deepest file (in path components) of a packaged tree

(***************************************************************************)
(* str(int): the decimal digits of n, as Python formats an int in an       *)
(* f-string.                                                               *)
(***************************************************************************)
DigitChar == <<"0", "1", "2", "3", "4", "5", "6", "7", "8", "9">>

RECURSIVE NatStr(_)
NatStr(n) == IF n < 10 THEN DigitChar[n + 1]
             ELSE NatStr(n \div 10) \o DigitChar[(n % 10) + 1]

IntStr(n) == IF n < 0 THEN "-" \o NatStr(-n) ELSE NatStr(n)

MODEL_DIR == "/model"

\* Path(a) / b, and str() of the result, for an absolute a and a relative b
PathJoin(a, b) == a \o "/" \o b

(***************************************************************************)
(* SweepConfig() as the dataclasses construct it.                          *)
(***************************************************************************)
SweepConfigDefault ==
    [ train_steps |-> <<2000, 3000, 4000>>,
      ranks |-> <<8>>,
      model_name |-> "black-forest-labs/FLUX.1-dev",
      instance_prompt |-> "an HCON, in the style of TOK",
      dataset_name |-> "yirenlu/heroicons-subset-25-images",
      caption_column |-> "text",
      resolution |-> 512,
      train_batch_size |-> 1,
      gradient_accumulation_steps |-> 1,
      lr_scheduler |-> "constant",
      lr_warmup_steps |-> 0,
      checkpointing_steps |-> 1000,
      seed |-> 0 ]

(***************************************************************************)
(* itertools.product(a, b): a outer, b inner.                              *)
(***************************************************************************)
RECURSIVE product(_, _)
product(a, b) ==
    IF a = <<>> THEN <<>>
    ELSE [j \in 1..Len(b) |-> <<Head(a), b[j]>>] \o product(Tail(a), b)

\* the name both generate_sweep_configs and run derive from a (steps, rank) pair
SweepDirNameNoRank(steps, rank) == "steps_" \o IntStr(steps)

SweepDirName(steps, rank) == "steps_" \o IntStr(steps) \o "_rank_" \o IntStr(rank)

\* one element of the list comprehension of generate_sweep_configs
SweepRecord(sc, steps, rank) ==
    [ max_train_steps |-> steps,
      rank |-> rank,
      model_name |-> sc.model_name,
      instance_prompt |-> sc.instance_prompt,
      dataset_name |-> sc.dataset_name,
      caption_column |-> sc.caption_column,
      resolution |-> sc.resolution,
      train_batch_size |-> sc.train_batch_size,
      gradient_accumulation_steps |-> sc.gradient_accumulation_steps,
      lr_scheduler |-> sc.lr_scheduler,
      lr_warmup_steps |-> sc.lr_warmup_steps,
      checkpointing_steps |-> sc.checkpointing_steps,
      seed |-> sc.seed,
      output_dir |-> PathJoin(MODEL_DIR, SweepDirName(steps, rank)) ]

\* a plausible slip: the two lists given to itertools.product in the other order
generate_sweep_configs_swapped(sc) ==
    LET combos == product(sc.ranks, sc.train_steps)
    IN  [k \in 1..Len(combos) |-> SweepRecord(sc, combos[k][2], combos[k][1])]

generate_sweep_configs(sc) ==
    LET combos == product(sc.train_steps, sc.ranks)
    IN  [k \in 1..Len(combos) |-> SweepRecord(sc, combos[k][1], combos[k][2])]

(***************************************************************************)
(* Inputs of the generator: lists over a few values, empty lists included, *)
(* repeated values included, and two scalar fields that vary.              *)
(***************************************************************************)
StepVals == {1, 12, 2000}
RankVals == {1, 21, 8}

SeqsUpTo(S, n) == UNION {[1..k -> S] : k \in 0..n}

GenInputs ==
    { [SweepConfigDefault EXCEPT !.train_steps = ts, !.ranks = rs,
                                 !.resolution = res, !.seed = sd] :
        ts \in SeqsUpTo(StepVals, MaxLen), rs \in SeqsUpTo(RankVals, MaxLen),
        res \in {512, 1024}, sd \in {0, 42} }


(***************************************************************************)
(* train(config): the command line it builds, and _exec_subprocess.        *)
(***************************************************************************)
USE_WANDB == TRUE

\* the list train passes to _exec_subprocess
TrainCmd(config) ==
    << "accelerate",
       "launch",
       "examples/dreambooth/train_dreambooth_flux.py",
       "--mixed_precision=bf16",
       "--pretrained_model_name_or_path=" \o config.model_name,
       "--dataset_name=" \o config.dataset_name,
       "--caption_column=" \o config.caption_column,
       "--output_dir=" \o config.output_dir,
       "--instance_prompt=" \o config.instance_prompt,
       "--resolution=" \o IntStr(config.resolution),
       "--train_batch_size=" \o IntStr(config.train_batch_size),
       "--gradient_accumulation_steps=" \o IntStr(config.gradient_accumulation_steps),
       "--optimizer='prodigy'",
       "--learning_rate=1.",
       "--lr_scheduler=" \o config.lr_scheduler,
       "--lr_warmup_steps=" \o IntStr(config.lr_warmup_steps),
       "--max_train_steps=" \o IntStr(config.max_train_steps),
       "--checkpointing_steps=" \o IntStr(config.checkpointing_steps),
       "--seed=" \o IntStr(config.seed) >>
    \o (IF USE_WANDB THEN << "--report_to=wandb" >> ELSE << >>)

\* sep.join(parts)
RECURSIVE Join(_, _)
Join(sep, parts) ==
    IF parts = <<>> THEN ""
    ELSE IF Len(parts) = 1 THEN parts[1]
    ELSE parts[1] \o sep \o Join(sep, Tail(parts))

\* the int value of a Python bool (bool is a subclass of int: True == 1)
BoolInt(b) == IF b THEN 1 ELSE 0

\* what `exitcode := process.wait() != 0` binds exitcode to: the comparison
\* binds tighter than the walrus, so exitcode is the bool, not the status
Walrus(status) == BoolInt(status /= 0)

\* exit statuses a training child ends with
ExitCodes == {0, 1, 2}

\* the inputs of train.map in run: the configurations of SweepConfig()
SweepConfigs == generate_sweep_configs(SweepConfigDefault)
Inv == 1..Len(SweepConfigs)

TrainIdle ==
    [ pc |-> "idle", config |-> <<>>, launches |-> 0, commits |-> 0,
      printed |-> <<>>, err |-> <<>>, ret |-> <<>> ]

ChildNone ==
    [ st |-> "none", written |-> 0, pipe |-> <<>>, status |-> 0, wrote |-> {} ]

\* the platform starts a container for one input of train: train(config) begins
\* (write_basic_config and the print leave the state alone)
TrainCall(config) == [TrainIdle EXCEPT !.pc = "started", !.config = <<config>>]

\* subprocess.Popen(cmd, stdout=PIPE, stderr=STDOUT)
Popen(i) ==
    /\ train[i].pc = "started"
    /\ train' = [train EXCEPT ![i].pc = "streaming", ![i].launches = @ + 1]
    /\ child' = [child EXCEPT ![i].st = "running"]
    /\ UNCHANGED <<sweep_config, configs, gen_pc, run_arg, run, volume, model, fold, lines_left, pack, inf>>

\* the text of the k-th line the child writes, as code points: "S<k>\n", and
\* on even lines "<e-acute><k>\n", a character outside ASCII
LineText(k) == IF k % 2 = 1 THEN <<83, 48 + (k % 10), 10>> ELSE <<233, 48 + (k % 10), 10>>

\* the child's stdout encodes text as UTF-8: one byte below 128, two bytes
\* 110xxxxx 10xxxxxx below 2048
RECURSIVE Utf8Encode(_)
Utf8Encode(text) ==
    IF text = <<>> THEN <<>>
    ELSE LET c == Head(text)
         IN  (IF c < 128 THEN <<c>> ELSE <<192 + (c \div 64), 128 + (c % 64)>>)
             \o Utf8Encode(Tail(text))

\* line.decode(): bytes to text, for bytes that are UTF-8 of code points
\* below 2048
RECURSIVE decode(_)
decode(line) ==
    IF line = <<>> THEN <<>>
    ELSE IF Head(line) < 128 THEN <<Head(line)>> \o decode(Tail(line))
    ELSE <<(Head(line) - 192) * 64 + (line[2] - 128)>> \o decode(Tail(Tail(line)))

\* the child writes one more line to its stdout/stderr
ChildWrite(i) ==
    /\ child[i].st = "running"
    /\ lines_left > 0
    /\ lines_left' = lines_left - 1
    /\ child' = [child EXCEPT ![i].written = @ + 1,
                              ![i].pipe = Append(@, Utf8Encode(LineText(child[i].written + 1)))]
    /\ UNCHANGED <<sweep_config, configs, gen_pc, run_arg, run, train, volume, model, fold, pack, inf>>

\* the child closes its stdout/stderr and goes on running
ChildClose(i) ==
    /\ child[i].st = "running"
    /\ child' = [child EXCEPT ![i].st = "closed"]
    /\ UNCHANGED <<sweep_config, configs, gen_pc, run_arg, run, train, volume, model, fold, lines_left, pack, inf>>

\* the child exits with status k; a successful training run has written the
\* directory named by --output_dir
ChildExit(i, k) ==
    /\ child[i].st \in {"running", "closed"}
    /\ child' = [child EXCEPT ![i].st = "exited",
                              ![i].status = k,
                              ![i].wrote = IF k = 0
                                           THEN {train[i].config[1].output_dir}
                                           ELSE {}]
    /\ UNCHANGED <<sweep_config, configs, gen_pc, run_arg, run, train, volume, model, fold, lines_left, pack, inf>>

\* one turn of `for line in iter(pipe.readline, b"")`: decode and print the line
ExecReadLine(i) ==
    /\ train[i].pc = "streaming"
    /\ child[i].pipe /= <<>>
    /\ train' = [train EXCEPT ![i].printed = Append(@, decode(Head(child[i].pipe)))]
    /\ child' = [child EXCEPT ![i].pipe = Tail(@)]
    /\ UNCHANGED <<sweep_config, configs, gen_pc, run_arg, run, volume, model, fold, lines_left, pack, inf>>

\* a slip: the loop ends as soon as no line is waiting in the pipe
ExecEOFWhenEmpty(i) ==
    /\ train[i].pc = "streaming"
    /\ child[i].pipe = <<>>
    /\ train' = [train EXCEPT ![i].pc = "waiting"]
    /\ UNCHANGED <<sweep_config, configs, gen_pc, run_arg, run, child, volume, model, fold, lines_left, pack, inf>>

\* readline returns b"": the pipe is drained and its write end is closed, by
\* the child or by the child's exit; the with block closes the read end
ExecEOF(i) ==
    /\ train[i].pc = "streaming"
    /\ child[i].pipe = <<>>
    /\ child[i].st \in {"closed", "exited"}
    /\ train' = [train EXCEPT ![i].pc = "waiting"]
    /\ UNCHANGED <<sweep_config, configs, gen_pc, run_arg, run, child, volume, model, fold, lines_left, pack, inf>>

\* a slip: the exit status is never looked at
ExecWaitIgnoringStatus(i) ==
    /\ train[i].pc = "waiting"
    /\ child[i].st = "exited"
    /\ train' = [train EXCEPT ![i].pc = "checked"]
    /\ UNCHANGED <<sweep_config, configs, gen_pc, run_arg, run, child, volume, model, fold, lines_left, pack, inf>>

\* `if exitcode := process.wait() != 0: raise CalledProcessError(exitcode, cmd)`
ExecWait(i) ==
    /\ train[i].pc = "waiting"
    /\ child[i].st = "exited"
    /\ LET exitcode == Walrus(child[i].status)
       IN  train' = IF exitcode /= 0
                    THEN [train EXCEPT
                            ![i].pc = "failed",
                            ![i].err = << [ returncode |-> exitcode,
                                            cmd |-> Join("\n", TrainCmd(train[i].config[1])) ] >>]
                    ELSE [train EXCEPT ![i].pc = "checked"]
    /\ UNCHANGED <<sweep_config, configs, gen_pc, run_arg, run, child, volume, model, fold, lines_left, pack, inf>>

\* a slip: train returns without committing the volume
TrainCommitSkipped(i) ==
    /\ train[i].pc = "checked"
    /\ train' = [train EXCEPT ![i].pc = "committed"]
    /\ UNCHANGED <<sweep_config, configs, gen_pc, run_arg, run, child, volume, model, fold, lines_left, pack, inf>>

\* volume.commit(): what this container wrote under MODEL_DIR becomes the
\* committed state
TrainCommit(i) ==
    /\ train[i].pc = "checked"
    /\ volume' = volume \cup child[i].wrote
    /\ train' = [train EXCEPT ![i].pc = "committed", ![i].commits = @ + 1]
    /\ UNCHANGED <<sweep_config, configs, gen_pc, run_arg, run, child, model, fold, lines_left, pack, inf>>

\* return config
TrainReturn(i) ==
    /\ train[i].pc = "committed"
    /\ train' = [train EXCEPT ![i].pc = "returned", ![i].ret = train[i].config]
    /\ UNCHANGED <<sweep_config, configs, gen_pc, run_arg, run, child, volume, model, fold, lines_left, pack, inf>>

TrainStep(i) ==
    \/ Popen(i)
    \/ ChildWrite(i)
    \/ ChildClose(i)
    \/ \E k \in ExitCodes : ChildExit(i, k)
    \/ ExecReadLine(i)
    \/ ExecEOF(i)
    \/ ExecWait(i)
    \/ TrainCommit(i)
    \/ TrainReturn(i)


(***************************************************************************)
(* Model: one execution context (container) per (directory, replica).      *)
(* @modal.enter load_model runs once when the context starts; inference    *)
(* serves the inputs of evaluate_model's starmap.                          *)
(***************************************************************************)
heroicon_test_prompts ==
    << "An HCON, a black and white minimalist icon that represents the international monetary system",
       "An HCON, a black and white minimalist icon of a macbook pro laptop",
       "An HCON, a black and white minimalist icon of a tiara",
       "An HCON, a black and white minimalist icon of mountain peaks",
       "An HCON, a black and white minimalist icon of that represents a bank account" >>

\* a slip: run names the directory by the step count alone
EvalDirNameStepsOnly(config) == "steps_" \o IntStr(config.max_train_steps)

\* f"steps_{config['max_train_steps']}_rank_{config['rank']}", the name run
\* derives again from the record train returned
EvalDirName(config) ==
    "steps_" \o IntStr(config.max_train_steps) \o "_rank_" \o IntStr(config.rank)

\* the directory names run can hand to evaluate_model
EvalDirs == {EvalDirName(SweepConfigs[i]) : i \in Inv}

Ctx == EvalDirs \X (1..MaxCtx)

ModelOff ==
    [ pc |-> "off", dir |-> "", view |-> {}, reloads |-> 0, loads |-> 0,
      weights |-> "" ]

\* a slip: load_model without the reload
volume_reload_skipped(ctx, committed) == ctx

\* volume.reload(): the mount of this context shows the committed state
volume_reload(ctx, committed) ==
    [ctx EXCEPT !.view = committed, !.reloads = @ + 1]

\* DiffusionPipeline.from_pretrained(...).to("cuda"), then
\* pipe.load_lora_weights(f"{MODEL_DIR}/{self.hyperparameter_model_dir}"), which
\* raises when the mount does not show the directory; self.pipe = pipe
load_lora_weights(ctx) ==
    LET path == MODEL_DIR \o "/" \o ctx.dir
    IN  IF path \in ctx.view
        THEN [ctx EXCEPT !.pc = "ready", !.weights = path, !.loads = @ + 1]
        ELSE [ctx EXCEPT !.pc = "crashed", !.loads = @ + 1]

\* @modal.enter load_model, on the committed state `committed`
load_model(ctx, committed) == load_lora_weights(volume_reload(ctx, committed))

\* the platform starts a container for Model(d) while inputs for it are waiting
\* (replicas in the order of their numbers); __init__ stores the directory name
\* and load_model runs. Before the reload the mount shows an earlier committed
\* state of the volume: the empty volume the run began with, or the latest one.
ModelStart(d, r) ==
    /\ run.pc = "evaluating"
    /\ run.eval_dir = d
    /\ run.pending /= <<>>
    /\ model[<<d, r>>].pc = "off"
    /\ \A q \in 1..(r - 1) : model[<<d, q>>].pc /= "off"
    /\ \E seen \in {{}, volume} :
         model' = [model EXCEPT ![<<d, r>>] =
                     load_model([ModelOff EXCEPT !.pc = "entered", !.dir = d,
                                                 !.view = seen], volume)]
    /\ UNCHANGED <<sweep_config, configs, gen_pc, run_arg, run, train, child, volume, fold, lines_left, pack, inf>>

\* a slip: inference refreshes the mount before it runs the pipeline
ModelInferenceReloading(c) ==
    /\ model[c].pc = "ready"
    /\ run.pc = "evaluating"
    /\ run.eval_dir = model[c].dir
    /\ run.pending /= <<>>
    /\ LET text == Head(run.pending)
       IN  run' = [run EXCEPT
                     !.pending = Tail(@),
                     !.logged = Append(@, [ key |-> "test_image/" \o run.eval_dir \o "/" \o text,
                                            weights |-> model[c].weights ])]
    /\ model' = [model EXCEPT ![c] = volume_reload(@, volume)]
    /\ UNCHANGED <<sweep_config, configs, gen_pc, run_arg, train, child, volume, fold, lines_left, pack, inf>>

\* inference(text, config): self.pipe(text, ...).images[0], returned with text;
\* evaluate_model logs it under test_image/<dir>/<prompt>
ModelInference(c) ==
    /\ model[c].pc = "ready"
    /\ run.pc = "evaluating"
    /\ run.eval_dir = model[c].dir
    /\ run.pending /= <<>>
    /\ LET text == Head(run.pending)
       IN  run' = [run EXCEPT
                     !.pending = Tail(@),
                     !.logged = Append(@, [ key |-> "test_image/" \o run.eval_dir \o "/" \o text,
                                            weights |-> model[c].weights ])]
    /\ UNCHANGED <<sweep_config, configs, gen_pc, run_arg, train, child, volume, model, fold, lines_left, pack, inf>>

ModelStep ==
    \/ \E d \in EvalDirs, r \in 1..MaxCtx : ModelStart(d, r)
    \/ \E c \in Ctx : ModelInference(c)

(***************************************************************************)
(* run(max_train_steps): the sweep driver.                                 *)
(***************************************************************************)
RunNone ==
    [ pc |-> "none", next |-> 1, cur |-> <<>>, eval_dir |-> "", pending |-> <<>>,
      logged |-> <<>>, evaluated |-> <<>>, raised |-> <<>> ]

\* sweep_config = SweepConfig(); configs = generate_sweep_configs(sweep_config);
\* train.map(configs): every input is submitted, each to its own invocation
RunStart ==
    /\ run.pc = "start"
    /\ sweep_config' = SweepConfigDefault
    /\ configs' = generate_sweep_configs(sweep_config')
    /\ gen_pc' = "done"
    /\ train' = [i \in Inv |-> IF i <= Len(configs') THEN TrainCall(configs'[i])
                               ELSE train[i]]
    /\ run' = [run EXCEPT !.pc = "mapping", !.next = 1]
    /\ UNCHANGED <<run_arg, child, volume, model, fold, lines_left, pack, inf>>

\* a slip: the loop body runs for an input whose training has not returned
MapYieldEarly ==
    /\ run.pc = "mapping"
    /\ run.next <= Len(configs)
    /\ train[run.next].pc \notin {"idle", "failed"}
    /\ LET config == train[run.next].config[1]
           name == EvalDirName(config)
       IN  run' = [run EXCEPT !.pc = "evaluating", !.cur = <<config>>,
                              !.eval_dir = name,
                              !.pending = heroicon_test_prompts,
                              !.evaluated = Append(@, name)]
    /\ UNCHANGED <<sweep_config, configs, gen_pc, run_arg, train, child, volume, model, fold, lines_left, pack, inf>>

\* `for config in train.map(configs)`: the generator yields the next result, in
\* input order, once that invocation has returned; the loop body calls
\* evaluate_model(f"steps_{config['max_train_steps']}_rank_{config['rank']}", run),
\* which submits one inference input per test prompt
MapYield ==
    /\ run.pc = "mapping"
    /\ run.next <= Len(configs)
    /\ train[run.next].pc = "returned"
    /\ LET config == train[run.next].ret[1]
           name == EvalDirName(config)
       IN  run' = [run EXCEPT !.pc = "evaluating", !.cur = <<config>>,
                              !.eval_dir = name,
                              !.pending = heroicon_test_prompts,
                              !.evaluated = Append(@, name)]
    /\ UNCHANGED <<sweep_config, configs, gen_pc, run_arg, train, child, volume, model, fold, lines_left, pack, inf>>

\* the generator raises the exception of a failed invocation: run ends with it
MapRaise ==
    /\ run.pc = "mapping"
    /\ run.next <= Len(configs)
    /\ train[run.next].pc = "failed"
    /\ run' = [run EXCEPT !.pc = "failed", !.raised = train[run.next].err]
    /\ UNCHANGED <<sweep_config, configs, gen_pc, run_arg, train, child, volume, model, fold, lines_left, pack, inf>>

\* evaluate_model has logged every result: the loop asks for the next result
EvalDone ==
    /\ run.pc = "evaluating"
    /\ run.pending = <<>>
    /\ run' = [run EXCEPT !.pc = "mapping", !.next = @ + 1]
    /\ UNCHANGED <<sweep_config, configs, gen_pc, run_arg, train, child, volume, model, fold, lines_left, pack, inf>>

\* the generator is exhausted: run returns
MapEnd ==
    /\ run.pc = "mapping"
    /\ run.next > Len(configs)
    /\ run' = [run EXCEPT !.pc = "done"]
    /\ UNCHANGED <<sweep_config, configs, gen_pc, run_arg, train, child, volume, model, fold, lines_left, pack, inf>>

RunStep == RunStart \/ MapYield \/ MapRaise \/ EvalDone \/ MapEnd

(***************************************************************************)
(* boltz1.py.  shlex.split(s): POSIX rules, whitespace_split, no comments. *)
(* s is a sequence of one-character strings; a token is a string.          *)
(***************************************************************************)
Whitespace == {" ", "\t", "\r", "\n"}
Quotes == {"'", "\""}
Escape == "\\"

\* the states of shlex's read_token: "ws" between tokens, "a" inside a word,
\* a quote character inside quotes, "esc" after a backslash (back is the state
\* to return to)
RECURSIVE shlex_scan(_, _, _, _, _, _)
shlex_scan(s, state, back, token, quoted, out) ==
    IF s = <<>> THEN
        IF state \in Quotes \/ state = "esc"
        THEN [ok |-> FALSE, tokens |-> <<>>]
        ELSE [ok |-> TRUE,
              tokens |-> IF state = "a" \/ quoted THEN Append(out, token) ELSE out]
    ELSE
        LET c == Head(s)
            rest == Tail(s)
        IN  CASE state = "ws" ->
                   IF c \in Whitespace THEN shlex_scan(rest, "ws", back, "", FALSE, out)
                   ELSE IF c = Escape THEN shlex_scan(rest, "esc", "a", "", FALSE, out)
                   ELSE IF c \in Quotes THEN shlex_scan(rest, c, back, "", TRUE, out)
                   ELSE shlex_scan(rest, "a", back, c, FALSE, out)
              [] state = "a" ->
                   IF c \in Whitespace
                   THEN shlex_scan(rest, "ws", back, "", FALSE, Append(out, token))
                   ELSE IF c \in Quotes THEN shlex_scan(rest, c, back, token, TRUE, out)
                   ELSE IF c = Escape THEN shlex_scan(rest, "esc", "a", token, quoted, out)
                   ELSE shlex_scan(rest, "a", back, token \o c, quoted, out)
              [] state \in Quotes ->
                   IF c = state THEN shlex_scan(rest, "a", back, token, TRUE, out)
                   ELSE IF c = Escape /\ state = "\""
                   THEN shlex_scan(rest, "esc", state, token, TRUE, out)
                   ELSE shlex_scan(rest, state, back, token \o c, TRUE, out)
              [] OTHER ->
                   IF back \in Quotes /\ c /= Escape /\ c /= back
                   THEN shlex_scan(rest, back, back, token \o Escape \o c, quoted, out)
                   ELSE shlex_scan(rest, back, back, token \o c, quoted, out)

\* shlex.split(s): [ok |-> FALSE] stands for its ValueError
shlex_split(s) == shlex_scan(s, "ws", "a", "", FALSE, <<>>)

models_dir == "/models/boltz1"

\* the value bound to boltz1_inference's parameter args by main's call
\* boltz1_inference.remote(input_yaml): only input_yaml is passed, so args
\* takes its default ""
RemoteArgs(main_args) == <<>>

\* a slip: the extra tokens come first
BoltzCmdArgsFirst(tokens) ==
    tokens \o <<"boltz", "predict", "input.yaml", "--cache", models_dir, "--use_msa_server">>

\* the list boltz1_inference gives to subprocess.run
BoltzCmd(tokens) ==
    <<"boltz", "predict", "input.yaml", "--cache", models_dir, "--use_msa_server">> \o tokens

(***************************************************************************)
(* package_outputs.  A file system is a set of nodes [path, kind, data];   *)
(* a path is the sequence of its components.                               *)
(***************************************************************************)
RECURSIVE SeqOf(_)
SeqOf(S) == IF S = {} THEN <<>>
            ELSE LET x == CHOOSE y \in S : TRUE IN <<x>> \o SeqOf(S \ {x})

IsPrefix(p, q) == Len(p) <= Len(q) /\ SubSeq(q, 1, Len(p)) = p

\* os.listdir / os.scandir of directory dir
Listing(fs, dir) == {n \in fs : Len(n.path) = Len(dir) + 1 /\ IsPrefix(dir, n.path)}

\* os.walk(top), top-down: (root, dirs, files) of top, then of each directory
\* in dirs; nothing when top is not a directory
RECURSIVE walk(_, _)
RECURSIVE walk_each(_, _)
walk(fs, top) ==
    IF ~\E n \in fs : n.path = top /\ n.kind = "dir" THEN <<>>
    ELSE LET entries == Listing(fs, top)
             dirs == SeqOf({n.path[Len(n.path)] : n \in {e \in entries : e.kind = "dir"}})
             files == SeqOf({n.path[Len(n.path)] : n \in {e \in entries : e.kind = "file"}})
         IN  << [root |-> top, dirs |-> dirs, files |-> files] >>
             \o walk_each(fs, [k \in 1..Len(dirs) |-> Append(top, dirs[k])])

walk_each(fs, tops) ==
    IF tops = <<>> THEN <<>>
    ELSE walk(fs, Head(tops)) \o walk_each(fs, Tail(tops))

\* os.path.join(root, file)
path_join(root, file) == Append(root, file)

RECURSIVE CommonLen(_, _)
CommonLen(p, q) ==
    IF p = <<>> \/ q = <<>> \/ Head(p) /= Head(q) THEN 0
    ELSE 1 + CommonLen(Tail(p), Tail(q))

\* a slip: the archive name is the bare file name
relpath_basename(path, start) == <<path[Len(path)]>>

\* os.path.relpath(path, start): ".." for each component of start beyond the
\* common prefix, then the rest of path
relpath(path, start) ==
    LET c == CommonLen(path, start)
    IN  [k \in 1..(Len(start) - c) |-> ".."] \o SubSeq(path, c + 1, Len(path))

\* the bytes of the file at path
ReadFile(fs, path) == (CHOOSE n \in fs : n.path = path /\ n.kind = "file").data

\* the entries zipf.write adds for the files of one (root, dirs, files)
write_files(fs, output_dir, triple) ==
    [k \in 1..Len(triple.files) |->
        LET file_path == path_join(triple.root, triple.files[k])
            arcname == relpath(file_path, output_dir)
        IN  [name |-> Join("/", arcname), data |-> ReadFile(fs, file_path)]]

RECURSIVE write_all(_, _, _)
write_all(fs, output_dir, triples) ==
    IF triples = <<>> THEN <<>>
    ELSE write_files(fs, output_dir, Head(triples))
         \o write_all(fs, output_dir, Tail(triples))

\* package_outputs(output_dir): the archive, as the sequence of its entries
package_outputs(fs, output_dir) == write_all(fs, output_dir, walk(fs, output_dir))

\* boltz_results_<input_path.with_suffix('').name>, for input_path = input.yaml
ResultsDir == <<"boltz_results_input">>

\* the file system with the files `files` (relative path :> data) and the
\* directories leading to them under root, and the further directories `more`
TreeAt(root, files, more) ==
    LET rels == DOMAIN files
        dirs == {root}
                \cup UNION {{root \o SubSeq(r, 1, k) : k \in 1..(Len(r) - 1)} : r \in rels}
                \cup {root \o m : m \in more}
    IN  {[path |-> root \o r, kind |-> "file", data |-> files[r]] : r \in rels}
        \cup {[path |-> d, kind |-> "dir", data |-> ""] : d \in dirs}

\* the files a successful predictor run leaves under boltz_results_input
ResultTree ==
    TreeAt(ResultsDir,
           (<<"predictions", "input_model_0.cif">> :> "cif")
           @@ (<<"manifest.json">> :> "json"),
           {})

InferNone ==
    [ pc |-> "none", boltz_input_yaml |-> "", args |-> <<>>, files |-> {}, cmd |-> <<>>,
      runs |-> 0, status |-> 0, packs |-> 0, output |-> <<>>, err |-> "" ]

\* the frame of boltz1_inference(boltz_input_yaml, args) at its first line
boltz1_inference(boltz_input_yaml, args) ==
    [InferNone EXCEPT !.pc = "called", !.boltz_input_yaml = boltz_input_yaml, !.args = args]

\* input_path = Path("input.yaml"); input_path.write_text(boltz_input_yaml)
InferWriteInput ==
    /\ inf.pc = "called"
    /\ inf' = [inf EXCEPT !.pc = "written",
                          !.files = {[path |-> <<"input.yaml">>, kind |-> "file",
                                      data |-> inf.boltz_input_yaml]}]
    /\ UNCHANGED <<sweep_config, configs, gen_pc, run_arg, run, train, child, volume, model, lines_left, pack, fold>>

\* args = shlex.split(args), which raises ValueError on an unclosed quote or a
\* dangling escape; subprocess.run starts `boltz predict`
InferRun ==
    /\ inf.pc = "written"
    /\ LET split == shlex_split(inf.args)
       IN  inf' = IF split.ok
                  THEN [inf EXCEPT !.pc = "predicting", !.cmd = BoltzCmd(split.tokens),
                                   !.runs = @ + 1]
                  ELSE [inf EXCEPT !.pc = "failed", !.err = "ValueError"]
    /\ UNCHANGED <<sweep_config, configs, gen_pc, run_arg, run, train, child, volume, model, lines_left, pack, fold>>

\* a slip: check=True left out, the exit status is not looked at; a predictor
\* that failed has left no result directory
InferPredictorExitUnchecked(k) ==
    /\ inf.pc = "predicting"
    /\ LET fs == IF k = 0 THEN inf.files \cup ResultTree ELSE inf.files
       IN  inf' = [inf EXCEPT !.pc = "returned", !.status = k, !.packs = @ + 1,
                              !.files = fs,
                              !.output = <<package_outputs(fs, ResultsDir)>>]
    /\ UNCHANGED <<sweep_config, configs, gen_pc, run_arg, run, train, child, volume, model, lines_left, pack, fold>>

\* the predictor exits with status k; check=True raises CalledProcessError on
\* a non-zero status, otherwise package_outputs zips the result directory the
\* predictor left and the bytes are returned
InferPredictorExit(k) ==
    /\ inf.pc = "predicting"
    /\ inf' = IF k /= 0
              THEN [inf EXCEPT !.pc = "failed", !.status = k, !.err = "CalledProcessError"]
              ELSE [inf EXCEPT !.pc = "returned", !.status = k, !.packs = @ + 1,
                               !.files = @ \cup ResultTree,
                               !.output = <<package_outputs(inf.files \cup ResultTree,
                                                            ResultsDir)>>]
    /\ UNCHANGED <<sweep_config, configs, gen_pc, run_arg, run, train, child, volume, model, lines_left, pack, fold>>

FoldNone ==
    [ pc |-> "none", force_download |-> FALSE, input |-> <<>>, exists |-> FALSE,
      args |-> <<>>, out_dir |-> <<>>, had_weights |-> FALSE, fetched |-> FALSE,
      printed |-> <<>>, err |-> "", input2 |-> "", input_yaml |-> "", commits |-> 0,
      output |-> <<>>, files |-> {} ]

\* print("loading model remotely"); download_model.remote(force_download)
FoldDownloadCall ==
    /\ fold.pc = "start"
    /\ fold' = [fold EXCEPT !.pc = "downloading",
                            !.printed = Append(@, "loading model remotely")]
    /\ UNCHANGED <<sweep_config, configs, gen_pc, run_arg, run, train, child, volume, model, lines_left, pack, inf>>

\* snapshot_download(..., local_dir=models_dir, force_download=force_download):
\* files are transferred when forced or when the weights are not there yet;
\* a failed fetch raises out of download_model and out of main
snapshot_download(ok) ==
    /\ fold.pc = "downloading"
    /\ fold' = IF ok
               THEN [fold EXCEPT !.pc = "fetched",
                                 !.fetched = fold.force_download \/ ~fold.had_weights]
               ELSE [fold EXCEPT !.pc = "error", !.err = "download"]
    /\ UNCHANGED <<sweep_config, configs, gen_pc, run_arg, run, train, child, volume, model, lines_left, pack, inf>>

\* a slip: the volume is committed only when files were transferred
boltz_model_volume_commit_if_fetched ==
    /\ fold.pc = "fetched"
    /\ fold' = [fold EXCEPT !.pc = "downloaded",
                            !.commits = IF fold.fetched THEN @ + 1 ELSE @]
    /\ UNCHANGED <<sweep_config, configs, gen_pc, run_arg, run, train, child, volume, model, lines_left, pack, inf>>

\* boltz_model_volume.commit(); print("model downloaded"); download_model returns
boltz_model_volume_commit ==
    /\ fold.pc = "fetched"
    /\ fold' = [fold EXCEPT !.pc = "downloaded", !.commits = @ + 1]
    /\ UNCHANGED <<sweep_config, configs, gen_pc, run_arg, run, train, child, volume, model, lines_left, pack, inf>>

\* input1 = Path(input).resolve(); input2 = Path(input1).name;
\* if input is None: print(...); input_yaml = input1.read_text().
\* Path(None) raises TypeError before the test of input is reached.
FoldReadInput ==
    /\ fold.pc = "downloaded"
    /\ fold' = IF fold.input = <<>>
               THEN [fold EXCEPT !.pc = "error", !.err = "TypeError"]
               ELSE IF ~fold.exists
               THEN [fold EXCEPT !.pc = "error", !.err = "FileNotFoundError",
                                 !.input2 = fold.input[Len(fold.input)]]
               ELSE [fold EXCEPT !.pc = "read",
                                 !.input2 = fold.input[Len(fold.input)],
                                 !.input_yaml = "yaml:" \o Join("/", fold.input)]
    /\ UNCHANGED <<sweep_config, configs, gen_pc, run_arg, run, train, child, volume, model, lines_left, pack, inf>>

\* print("running boltz ..."); boltz1_inference.remote(input_yaml)
FoldInferenceCall ==
    /\ fold.pc = "read"
    /\ fold' = [fold EXCEPT !.pc = "inferring", !.printed = Append(@, "running boltz")]
    /\ inf' = boltz1_inference(fold.input_yaml, RemoteArgs(fold.args))
    /\ UNCHANGED <<sweep_config, configs, gen_pc, run_arg, run, train, child, volume, model, lines_left, pack>>

\* boltz1_inference.remote returns the bytes, or raises what the function raised
FoldInferenceReturn ==
    /\ fold.pc = "inferring"
    /\ inf.pc \in {"returned", "failed"}
    /\ fold' = IF inf.pc = "returned"
               THEN [fold EXCEPT !.pc = "returned", !.output = inf.output]
               ELSE [fold EXCEPT !.pc = "error", !.err = inf.err]
    /\ UNCHANGED <<sweep_config, configs, gen_pc, run_arg, run, train, child, volume, model, lines_left, pack, inf>>

\* output_path = Path(f"boltz_{input2}_result.zip"), a path relative to the
\* working directory; mkdir of its parent; output_path.write_bytes(output);
\* print("DONE")
FoldWrite ==
    /\ fold.pc = "returned"
    /\ fold' = [fold EXCEPT !.pc = "done",
                            !.files = @ \cup { [ path |-> <<"boltz_" \o fold.input2 \o "_result.zip">>,
                                                 data |-> fold.output[1] ] },
                            !.printed = @ \o <<"writing output", "DONE">>]
    /\ UNCHANGED <<sweep_config, configs, gen_pc, run_arg, run, train, child, volume, model, lines_left, pack, inf>>

\* the extra-arguments strings given to main
ArgsEmpty == <<>>
ArgsSampling ==
    <<"-", "-", "s", "a", "m", "p", "l", "i", "n", "g", "_", "s", "t", "e", "p", "s", " ", "1", "0">>
ArgsQuoted == <<"-", "-", "o", "u", "t", " ", "\"", "a", " ", "b", "\"">>
ArgStrings == {ArgsEmpty, ArgsSampling, ArgsQuoted}

\* the args strings given to boltz1_inference: those, an escaped blank, single
\* quotes, and two that shlex cannot split
ArgsEscaped == <<"a", "\\", " ", "b", " ", "c">>
ArgsSingle == <<"'", "x", " ", "\"", "'", " ", "z">>
ArgsUnclosed == <<"-", "k", " ", "\"", "a">>
ArgsDangling == <<"a", " ", "b", "\\">>
InferArgStrings ==
    ArgStrings \cup {ArgsEscaped, ArgsSingle, ArgsUnclosed, ArgsDangling}

\* the input specifications given to boltz1_inference
InferYamls == {"", "version: 1", "sequences: []"}

\* the out_dir values given to main, as path components: "./" (the default) and "out"
OutDirs == {<<>>, <<"out">>}

\* the statuses the predictor exits with
PredictorExitCodes == {0, 1, 2}

\* the input paths given to main (<<>> is None), as path components
InputPaths == {<<>>, <<"a.yaml">>, <<"data", "b.yaml">>}

\* the trees package_outputs is called on: any set of files up to MaxDepth
\* components deep (the same file name may occur in several directories), any
\* contents, with or without an empty directory beside them
PackDirName == "d"
PackFileNames == {"m.cif", "n"}
PackData == {"x", "y"}
PackRelPaths ==
    UNION {{[j \in 1..k |-> IF j < k THEN PackDirName ELSE f] : f \in PackFileNames}
              : k \in 1..MaxDepth}
PackTrees ==
    UNION {{TreeAt(ResultsDir, files, more) : files \in [rels -> PackData],
                                              more \in {{}, {<<"empty">>}}}
              : rels \in SUBSET PackRelPaths}

PackNone == [pc |-> "none", fs |-> {}, output_dir |-> <<>>, archive |-> <<>>]

\* package_outputs(output_dir) on the file system pack.fs
PackageOutputs ==
    /\ pack.pc = "ready"
    /\ pack' = [pack EXCEPT !.pc = "done",
                            !.archive = package_outputs(pack.fs, pack.output_dir)]
    /\ UNCHANGED <<sweep_config, configs, gen_pc, run_arg, run, train, child, volume, model,
                   fold, lines_left, inf>>

(***************************************************************************)
(* Specifications.                                                         *)
(***************************************************************************)
\* values of run's --max-train-steps (250 is the default)
RunArgs == {250, 500}

\* the sweep: run() from its start
InitSweep ==
    /\ inf = InferNone
    /\ sweep_config = <<>>
    /\ configs = <<>>
    /\ gen_pc = "idle"
    /\ run_arg \in RunArgs
    /\ run = [RunNone EXCEPT !.pc = "start"]
    /\ train = [i \in Inv |-> TrainIdle]
    /\ child = [i \in Inv |-> ChildNone]
    /\ lines_left = SweepLines
    /\ pack = PackNone
    /\ volume = {}
    /\ model = [c \in Ctx |-> ModelOff]
    /\ fold = FoldNone

NextSweep ==
    \/ RunStep
    \/ \E i \in Inv : TrainStep(i)
    \/ ModelStep

SpecSweep == InitSweep /\ [][NextSweep]_vars

\* one train invocation, called with any one configuration of the sweep
InitTrain ==
    /\ inf = InferNone
    /\ sweep_config = SweepConfigDefault
    /\ configs = SweepConfigs
    /\ gen_pc = "done"
    /\ run_arg \in {250}
    /\ run = RunNone
    /\ \E j \in Inv : train = [i \in Inv |-> IF i = 1 THEN TrainCall(SweepConfigs[j])
                                             ELSE TrainIdle]
    /\ child = [i \in Inv |-> ChildNone]
    /\ lines_left = MaxLines
    /\ pack = PackNone
    /\ volume = {}
    /\ model = [c \in Ctx |-> ModelOff]
    /\ fold = FoldNone

NextTrain == TrainStep(1)

SpecTrain == InitTrain /\ [][NextTrain]_vars

\* generate_sweep_configs applied to a sweep configuration from GenInputs
InitGen ==
    /\ inf = InferNone
    /\ sweep_config \in GenInputs
    /\ configs = <<>>
    /\ gen_pc = "ready"
    /\ run_arg \in {250}
    /\ run = RunNone
    /\ train = [i \in Inv |-> TrainIdle]
    /\ child = [i \in Inv |-> ChildNone]
    /\ lines_left = 0
    /\ pack = PackNone
    /\ volume = {}
    /\ model = [c \in Ctx |-> ModelOff]
    /\ fold = FoldNone

GenerateSweepConfigs ==
    /\ gen_pc = "ready"
    /\ configs' = generate_sweep_configs(sweep_config)
    /\ gen_pc' = "done"
    /\ UNCHANGED <<sweep_config, run_arg, run, train, child, volume, model, fold, lines_left, pack, inf>>

NextGen == GenerateSweepConfigs

SpecGen == InitGen /\ [][NextGen]_vars


\* main() of boltz1.py from its start, on any of the inputs above
InitFold ==
    /\ sweep_config = <<>>
    /\ configs = <<>>
    /\ gen_pc = "idle"
    /\ run_arg \in {250}
    /\ run = RunNone
    /\ train = [i \in Inv |-> TrainIdle]
    /\ child = [i \in Inv |-> ChildNone]
    /\ lines_left = 0
    /\ pack = PackNone
    /\ volume = {}
    /\ model = [c \in Ctx |-> ModelOff]
    /\ inf = InferNone
    /\ \E fd \in BOOLEAN, inp \in InputPaths, ex \in BOOLEAN, a \in ArgStrings,
          od \in OutDirs, w \in BOOLEAN :
         fold = [FoldNone EXCEPT !.pc = "start", !.force_download = fd, !.input = inp,
                                 !.exists = ex, !.args = a, !.out_dir = od,
                                 !.had_weights = w]

NextFold ==
    \/ FoldDownloadCall
    \/ \E ok \in BOOLEAN : snapshot_download(ok)
    \/ boltz_model_volume_commit
    \/ FoldReadInput
    \/ FoldInferenceCall
    \/ InferWriteInput
    \/ InferRun
    \/ \E k \in PredictorExitCodes : InferPredictorExit(k)
    \/ FoldInferenceReturn
    \/ FoldWrite

\* boltz1_inference called with any input specification and any args string
InitInfer ==
    /\ sweep_config = <<>>
    /\ configs = <<>>
    /\ gen_pc = "idle"
    /\ run_arg \in {250}
    /\ run = RunNone
    /\ train = [i \in Inv |-> TrainIdle]
    /\ child = [i \in Inv |-> ChildNone]
    /\ lines_left = 0
    /\ pack = PackNone
    /\ volume = {}
    /\ model = [c \in Ctx |-> ModelOff]
    /\ fold = FoldNone
    /\ \E y \in InferYamls, a \in InferArgStrings : inf = boltz1_inference(y, a)

NextInfer ==
    \/ InferWriteInput
    \/ InferRun
    \/ \E k \in PredictorExitCodes : InferPredictorExit(k)

SpecInfer == InitInfer /\ [][NextInfer]_vars

SpecFold == InitFold /\ [][NextFold]_vars


\* package_outputs called on the root of any tree of PackTrees
InitPack ==
    /\ inf = InferNone
    /\ sweep_config = <<>>
    /\ configs = <<>>
    /\ gen_pc = "idle"
    /\ run_arg \in {250}
    /\ run = RunNone
    /\ train = [i \in Inv |-> TrainIdle]
    /\ child = [i \in Inv |-> ChildNone]
    /\ lines_left = 0
    /\ volume = {}
    /\ model = [c \in Ctx |-> ModelOff]
    /\ fold = FoldNone
    /\ \E t \in PackTrees : pack = [PackNone EXCEPT !.pc = "ready", !.fs = t,
                                                    !.output_dir = ResultsDir]

NextPack == PackageOutputs

SpecPack == InitPack /\ [][NextPack]_vars

(***************************************************************************)
(* Properties.                                                             *)
(***************************************************************************)
Launched(i) == train[i].pc /= "idle"
Completed(i) == train[i].pc \in {"returned", "failed"}
ExitedWith(i) == IF child[i].st = "exited" THEN {child[i].status} ELSE {}

\* C1 (as claimed): _exec_subprocess returns normally exactly when the child
\* exited with status 0, and when it raises for a non-zero status k the error's
\* returncode is k.
C1_ErrorCarriesExitCode ==
    \A i \in Inv :
        /\ train[i].pc \in {"checked", "committed", "returned"} => child[i].status = 0
        /\ train[i].pc = "failed" => train[i].err[1].returncode = child[i].status

\* C2 (as claimed): run submits every configuration to train, and no evaluation
\* has started while some submitted training invocation has not yet completed.
C2_NoEvaluationBeforeAllTrained ==
    /\ run.pc \notin {"none", "start"} => \A i \in Inv : Launched(i)
    /\ run.evaluated /= <<>> => \A i \in Inv : Completed(i)

\* C2 (amended): run submits every configuration to train at once; the n-th
\* evaluation is that of the n-th configuration and has started only after the
\* training invocations of configurations 1..n have returned.
C2_EvaluationAfterOwnTraining ==
    /\ run.pc \notin {"none", "start"} => \A i \in Inv : Launched(i)
    /\ \A n \in 1..Len(run.evaluated) :
          /\ n \in Inv
          /\ \A j \in 1..n : train[j].pc = "returned"
          /\ run.evaluated[n] = SweepDirName(configs[n].max_train_steps, configs[n].rank)

\* C2 witness: an evaluation is under way while a later training invocation is
\* still running its child.
C2_EvaluatingWhileTraining ==
    /\ run.pc = "evaluating"
    /\ run.pending /= <<>>
    /\ \E i \in Inv : train[i].pc = "streaming" /\ child[i].st = "running"

\* C3 (as claimed): the tokens boltz1_inference appends to `boltz predict` are
\* the shell-split tokens of the args string main received.
C3_ArgsReachPredictor ==
    inf.runs > 0 => inf.cmd = BoltzCmd(shlex_split(fold.args).tokens)

C5_StepCountOverrides ==
    \A i \in Inv : Launched(i) => train[i].config[1].max_train_steps = run_arg

\* C6: whenever a Model context has read a trained directory (load_lora_weights
\* in load_model), it had reloaded the volume before, the reloaded mount showed
\* that directory, and the train invocation that wrote the directory had
\* committed it: the read found the committed training output.
C6_ReadAfterRefresh ==
    \A c \in Ctx :
        model[c].loads > 0 =>
            /\ model[c].reloads = 1
            /\ model[c].pc = "ready"
            /\ model[c].weights \in model[c].view
            /\ model[c].view \subseteq volume
            /\ \E i \in Inv :
                 /\ train[i].commits >= 1
                 /\ child[i].wrote = {model[c].weights}
                 /\ train[i].config[1].output_dir = model[c].weights

\* C6 witness: a Model context has loaded the weights of a trained directory
\* and served an inference from them.
C6_ContextLoaded ==
    \E c \in Ctx : model[c].pc = "ready" /\ model[c].weights /= "" /\ run.logged /= <<>>

\* C7: generate_sweep_configs returns N*M records in product order, steps outer
\* and rank inner: the record at position (i-1)*M+j (counting from 1) has
\* max_train_steps = train_steps[i] and rank = ranks[j], and every other scalar
\* field is the sweep configuration's.
C7_CartesianProduct ==
    gen_pc = "done" /\ run.pc = "none" =>
        LET N == Len(sweep_config.train_steps)
            M == Len(sweep_config.ranks)
        IN  /\ Len(configs) = N * M
            /\ \A i \in 1..N, j \in 1..M :
                 LET r == configs[(i - 1) * M + j]
                 IN  /\ r.max_train_steps = sweep_config.train_steps[i]
                     /\ r.rank = sweep_config.ranks[j]
                     /\ r.model_name = sweep_config.model_name
                     /\ r.instance_prompt = sweep_config.instance_prompt
                     /\ r.dataset_name = sweep_config.dataset_name
                     /\ r.caption_column = sweep_config.caption_column
                     /\ r.resolution = sweep_config.resolution
                     /\ r.train_batch_size = sweep_config.train_batch_size
                     /\ r.gradient_accumulation_steps = sweep_config.gradient_accumulation_steps
                     /\ r.lr_scheduler = sweep_config.lr_scheduler
                     /\ r.lr_warmup_steps = sweep_config.lr_warmup_steps
                     /\ r.checkpointing_steps = sweep_config.checkpointing_steps
                     /\ r.seed = sweep_config.seed

NoRepeats(s) == \A p, q \in 1..Len(s) : p /= q => s[p] /= s[q]

\* C7 witness: the generator has run on two different step counts and two
\* different ranks.
C7_TwoByTwo ==
    /\ gen_pc = "done" /\ run.pc = "none"
    /\ Len(sweep_config.train_steps) = 2 /\ NoRepeats(sweep_config.train_steps)
    /\ Len(sweep_config.ranks) = 2 /\ NoRepeats(sweep_config.ranks)
    /\ Len(configs) = 4

\* C8 (as claimed): no two records of one sweep share an output_dir.
C8_OutputDirsUnique ==
    gen_pc = "done" /\ run.pc = "none" =>
        \A p, q \in 1..Len(configs) :
            p /= q => configs[p].output_dir /= configs[q].output_dir

\* C8 (amended): two records of one sweep share an output_dir exactly when they
\* have the same step count and the same rank, which happens only when a value
\* is repeated in train_steps or in ranks; with no repeated value in either
\* list every record's output_dir is unique.
C8_OutputDirsUniquePerPair ==
    gen_pc = "done" /\ run.pc = "none" =>
        /\ \A p, q \in 1..Len(configs) :
              (configs[p].output_dir = configs[q].output_dir)
              <=> (/\ configs[p].max_train_steps = configs[q].max_train_steps
                   /\ configs[p].rank = configs[q].rank)
        /\ (NoRepeats(sweep_config.train_steps) /\ NoRepeats(sweep_config.ranks))
              => \A p, q \in 1..Len(configs) :
                    p /= q => configs[p].output_dir /= configs[q].output_dir

\* C8 witness: a sweep over step counts 1 and 12 and ranks 21 and 1 (digit
\* strings that would run together without the separators) has been generated.
C8_ConfusableValues ==
    /\ gen_pc = "done" /\ run.pc = "none"
    /\ sweep_config.train_steps = <<1, 12>>
    /\ sweep_config.ranks = <<21, 1>>
    /\ Len(configs) = 4

C10_FailureNotRetried ==
    \A i \in Inv :
        /\ train[i].launches <= 1
        /\ (child[i].st = "exited" /\ child[i].status /= 0) =>
              /\ train[i].launches = 1
              /\ train[i].commits = 0
              /\ train[i].ret = <<>>
              /\ train[i].pc \in {"streaming", "waiting", "failed"}
              /\ train[i].config[1].output_dir \notin volume
              /\ run.next <= i
              /\ (run.next = i => run.pc \in {"mapping", "failed"})
              /\ \A n \in 1..Len(run.evaluated) :
                    run.evaluated[n] /= SweepDirName(train[i].config[1].max_train_steps,
                                                     train[i].config[1].rank)
        /\ train[i].pc = "failed" => (child[i].st = "exited" /\ child[i].status /= 0)

\* C10 witness: the second training invocation has failed on exit status 2
\* after the first was evaluated, and run has ended with its error.
C10_SweepFailed ==
    /\ run.pc = "failed"
    /\ run.next = 2
    /\ train[2].pc = "failed"
    /\ child[2].status = 2
    /\ run.raised = train[2].err

\* the relative paths and contents of the files under pack.output_dir
PackedFiles ==
    {[rel |-> SubSeq(n.path, Len(pack.output_dir) + 1, Len(n.path)), data |-> n.data] :
        n \in {m \in pack.fs : m.kind = "file" /\ IsPrefix(pack.output_dir, m.path)}}

\* zipfile extractall: each entry written under its name, later entries over
\* earlier ones of the same name
RECURSIVE extractall(_)
extractall(archive) ==
    IF archive = <<>> THEN {}
    ELSE LET last == archive[Len(archive)]
         IN  {e \in extractall(SubSeq(archive, 1, Len(archive) - 1)) : e.name /= last.name}
             \cup {last}

\* C11: the archive package_outputs returns has exactly one entry per file of
\* the tree, at any depth and with any extension, and no other entry; each entry
\* is named by the file's path relative to the root, components joined by "/",
\* and extracting the archive gives back every file's content.
C11_ArchiveMatchesTree ==
    pack.pc = "done" =>
        /\ Len(pack.archive) = Cardinality(PackedFiles)
        /\ \A f \in PackedFiles :
              Cardinality({k \in 1..Len(pack.archive) :
                              pack.archive[k].name = Join("/", f.rel)}) = 1
        /\ \A k \in 1..Len(pack.archive) :
              \E f \in PackedFiles : pack.archive[k] = [name |-> Join("/", f.rel), data |-> f.data]
        /\ extractall(pack.archive)
              = {[name |-> Join("/", f.rel), data |-> f.data] : f \in PackedFiles}

\* C11 witness: a tree with the same file name at two depths, different
\* contents and an empty directory has been packaged.
C11_NestedTreePacked ==
    /\ pack.pc = "done"
    /\ \E f, g \in PackedFiles :
          /\ Len(f.rel) = 1 /\ Len(g.rel) = 2
          /\ f.rel[1] = g.rel[2] /\ f.data /= g.data
    /\ \E n \in pack.fs : n.kind = "dir" /\ n.path = pack.output_dir \o <<"empty">>
    /\ Len(pack.archive) >= 2

\* the tokens Python's shlex.split gives for each string of InferArgStrings
\* that it can split
ShellTokens ==
    (ArgsEmpty :> <<>>)
    @@ (ArgsSampling :> <<"--sampling_steps", "10">>)
    @@ (ArgsQuoted :> <<"--out", "a b">>)
    @@ (ArgsEscaped :> <<"a b", "c">>)
    @@ (ArgsSingle :> <<"x \"", "z">>)

\* C12: boltz1_inference writes the input specification to input.yaml before
\* it starts the predictor, and starts the predictor exactly once, with boltz,
\* predict, input.yaml, --cache, the models directory, --use_msa_server and then
\* the shell-split tokens of its args string, in order and unaltered.
C12_PredictorCommand ==
    /\ inf.runs > 0 =>
          /\ [path |-> <<"input.yaml">>, kind |-> "file", data |-> inf.boltz_input_yaml]
                \in inf.files
          /\ inf.args \in DOMAIN ShellTokens
          /\ inf.cmd = <<"boltz", "predict", "input.yaml", "--cache", "/models/boltz1",
                         "--use_msa_server">> \o ShellTokens[inf.args]
    /\ inf.runs <= 1
    /\ (inf.pc \in {"predicting", "returned"} \/ inf.err = "CalledProcessError")
          => inf.runs = 1
    /\ (inf.pc \in {"none", "called", "written"} \/ inf.err = "ValueError") => inf.runs = 0

\* C12 witness: boltz1_inference has returned after running the predictor
\* with a quoted token that holds a blank.
C12_QuotedTokenPassed ==
    /\ inf.pc = "returned"
    /\ inf.args = ArgsQuoted
    /\ inf.cmd[Len(inf.cmd)] = "a b"
    /\ inf.boltz_input_yaml /= ""

\* C13: when the predictor exits with a non-zero status, boltz1_inference has
\* run it once and does not run it again, does not call package_outputs and
\* returns no bytes; the failure reaches main, which writes no file.
C13_FailedRunLeavesNothing ==
    (inf.pc /= "none" /\ inf.status /= 0) =>
        /\ inf.pc = "failed" /\ inf.err = "CalledProcessError"
        /\ inf.runs = 1
        /\ inf.packs = 0
        /\ inf.output = <<>>
        /\ fold.output = <<>>
        /\ fold.files = {}
        /\ fold.pc \in {"inferring", "error"}
        /\ fold.pc = "error" => fold.err = "CalledProcessError"

\* C13 witness: main has ended with the predictor's failure.
C13_FailureReachedMain ==
    /\ inf.status = 2
    /\ fold.pc = "error"
    /\ fold.err = "CalledProcessError"

\* C14: download_model commits the weights volume once, after snapshot_download
\* has returned, on every call whose fetch succeeds (forced or not, weights
\* already there or not), and does not commit when the fetch fails; main calls
\* boltz1_inference only after download_model has returned.
C14_CommitAfterFetch ==
    /\ fold.pc \in {"none", "start", "downloading", "fetched"} => fold.commits = 0
    /\ fold.err = "download" => fold.commits = 0
    /\ (fold.pc \in {"downloaded", "read", "inferring", "returned", "done"}
          \/ (fold.pc = "error" /\ fold.err /= "download")) => fold.commits = 1
    /\ inf.pc /= "none" =>
          /\ fold.pc \notin {"none", "start", "downloading", "fetched", "downloaded"}
          /\ fold.commits = 1

\* C14 witness: a run has completed in which the weights were already there
\* and no refresh was forced, so the fetch transferred nothing, and the volume
\* was committed all the same.
C14_CommittedWithoutFetch ==
    /\ fold.pc = "done"
    /\ fold.had_weights /\ ~fold.force_download /\ ~fold.fetched
    /\ fold.commits = 1

\* C16 (as claimed): when main completes it has written one file, holding the
\* bytes boltz1_inference returned, named boltz_<input file name>_result.zip and
\* lying in the directory out_dir; before the inference returns no file is
\* written.
C16_ArchiveWrittenToOutDir ==
    /\ fold.pc = "done" =>
          fold.files = { [ path |-> fold.out_dir
                                      \o <<"boltz_" \o fold.input[Len(fold.input)] \o "_result.zip">>,
                           data |-> inf.output[1] ] }
    /\ fold.pc /= "done" => fold.files = {}

\* C15: within one Model context the volume reload, the pipeline construction
\* and the weight load happen exactly once, before the context serves its
\* first inference; every inference is served by such a context from the
\* weights it loaded then, and once a context is ready nothing changes it any
\* more: no inference reloads or re-initializes, and what is committed to the
\* volume later does not show in the context's mount.
C15_InitializedOnce ==
    /\ [](/\ \A c \in Ctx : model[c].pc /= "off" => model[c].reloads = 1 /\ model[c].loads = 1
          /\ \A n \in 1..Len(run.logged) :
                \E c \in Ctx : /\ model[c].pc = "ready"
                               /\ run.logged[n].weights = model[c].weights)
    /\ [][\A c \in Ctx : model[c].pc = "ready" => model'[c] = model[c]]_vars

\* C15 witness: a ready context is serving inferences while the volume holds
\* a directory committed after the context's reload, which its mount does not
\* show.
C15_LaterCommitUnseen ==
    \E c \in Ctx :
        /\ model[c].pc = "ready"
        /\ \E n \in 1..Len(run.logged) : run.logged[n].weights = model[c].weights
        /\ run.pending /= <<>>
        /\ \E d \in volume : d \notin model[c].view

\* C17: the directory an evaluation's Model context loads its weights from,
\* MODEL_DIR joined with the name run derives again from the record train
\* returned, is the output_dir generate_sweep_configs gave that record, the
\* directory its train invocation wrote.
C17_EvaluationReadsOutputDir ==
    /\ \A n \in 1..Len(run.evaluated) :
          /\ MODEL_DIR \o "/" \o run.evaluated[n] = configs[n].output_dir
          /\ child[n].wrote = {MODEL_DIR \o "/" \o run.evaluated[n]}
    /\ run.pc = "evaluating" =>
          /\ EvalDirName(run.cur[1]) = run.eval_dir
          /\ \A c \in Ctx :
                (model[c].pc /= "off" /\ model[c].dir = run.eval_dir) =>
                    model[c].weights = run.cur[1].output_dir

\* C17 witness: the second configuration of the sweep is being evaluated by a
\* context that loaded that configuration's output_dir.
C17_SecondConfigEvaluated ==
    /\ run.pc = "evaluating"
    /\ Len(run.evaluated) = 2
    /\ \E c \in Ctx : /\ model[c].dir = run.eval_dir
                      /\ model[c].weights = configs[2].output_dir
                      /\ model[c].weights /= configs[1].output_dir

====
